---- MODULE Spec2Model ----
(***************************************************************************)
(* Model of the ESIM layers (esim/layers.py): RNNDropout, Seq2seqEncoder   *)
(* and SoftmaxAttention.                                                   *)
(*                                                                         *)
(* Tensors are nested tuples of integers: a tensor of shape (b, t, f) is a *)
(* tuple of b tuples of t tuples of f integers.  Torch operators are       *)
(* modelled by the values they compute.                                    *)
(***************************************************************************)
EXTENDS Integers, Sequences, FiniteSets, TLC

VARIABLES
    dropout,    \* the RNNDropout module: its attributes p and training
    heap,       \* the tensors alive during a call of RNNDropout.forward, by id
    dcall,      \* the frame of RNNDropout.forward: its locals and result
    encoder,    \* the Seq2seqEncoder object: its attributes, or the exception
    ecall,      \* the frame of Seq2seqEncoder.forward: position and locals
    acall       \* the frame of SoftmaxAttention.forward: arguments and locals

vars == <<dropout, heap, dcall, encoder, ecall, acall>>

----------------------------------------------------------------------------
(* Bounds of the model.                                                    *)

MaxBatch == 2       \* batch sizes 1..MaxBatch of the dropout inputs
MaxTime == 2        \* sequence lengths (time dimension) 1..MaxTime
MaxDim == 2         \* feature dimensions 1..MaxDim
MaxLayers == 2      \* num_layers 1..MaxLayers of a constructed encoder
MaxSeqs == 3        \* batch sizes 1..MaxSeqs of the encoder inputs
Modulus == 5        \* hidden values of the recurrent cell are taken modulo this

Vals == {0, 1}      \* the values of the elements of an input tensor

----------------------------------------------------------------------------
(* Tensors.                                                                *)

\* A function on 1..n as an explicit tuple.
Tup(f) == f \o <<>>

RECURSIVE Pow(_, _)
Pow(b, e) == IF e = 0 THEN 1 ELSE b * Pow(b, e - 1)

\* The length of the word of values an input tensor is tiled from.
SeedLen == Cardinality(Vals) + 1

Digit(seed, k) == (seed \div Pow(Cardinality(Vals), k)) % Cardinality(Vals)

Seeds == 0 .. (Pow(Cardinality(Vals), SeedLen) - 1)

\* The input tensor of shape (B, T, F) whose elements, in row-major order,
\* repeat the SeedLen digits of seed.
Tensor3(B, T, F, seed) ==
    Tup([b \in 1..B |-> Tup([t \in 1..T |-> Tup([f \in 1..F |->
        Digit(seed, ((b - 1) * T * F + (t - 1) * F + (f - 1)) % SeedLen)])])])

Shape3(x) == <<Len(x), Len(x[1]), Len(x[1][1])>>
Shape2(x) == <<Len(x), Len(x[1])>>

----------------------------------------------------------------------------
(* RNNDropout.                                                             *)

\* Dropout probabilities p = num/den whose scale 1/(1-p) is an integer.
PValues == {<<0, 1>>, <<1, 2>>, <<2, 3>>, <<1, 1>>}

PIsZero(p) == p[1] = 0
PIsOne(p) == p[1] = p[2]
Scale(p) == p[2] \div (p[2] - p[1])

\* seq_batch.data.new_ones(n, m)
new_ones(n, m) == [b \in 1..n |-> [f \in 1..m |-> 1]]

\* torch.nn.functional.dropout(input, p, training, inplace=False) on a 2-D
\* tensor; keep[b][f] is the Bernoulli(1-p) draw of element (b, f).
functional_dropout(input, p, training, keep) ==
    IF ~training \/ PIsZero(p) THEN input
    ELSE IF PIsOne(p) THEN [b \in DOMAIN input |-> [f \in DOMAIN input[b] |-> 0]]
    ELSE [b \in DOMAIN input |-> [f \in DOMAIN input[b] |->
             input[b][f] * keep[b][f] * Scale(p)]]

\* mask.unsqueeze(0) * seq_batch: the mask taken along the wrong axis (it
\* broadcasts only when batch = seq_len).
MulUnsqueeze0(mask, x) ==
    IF Len(x) = Len(x[1])
    THEN [b \in DOMAIN x |-> [t \in DOMAIN x[b] |-> [f \in DOMAIN x[b][t] |->
             mask[t][f] * x[b][t][f]]]]
    ELSE [b \in DOMAIN x |-> [t \in DOMAIN x[b] |-> [f \in DOMAIN x[b][t] |->
             mask[b][f] * x[b][t][f]]]]

\* dropout_mask.unsqueeze(1) * seq_batch: (batch, 1, dim) broadcast over the
\* timesteps of (batch, seq_len, dim).
MulUnsqueeze1(mask, x) ==
    [b \in DOMAIN x |-> [t \in DOMAIN x[b] |-> [f \in DOMAIN x[b][t] |->
        mask[b][f] * x[b][t][f]]]]

\* A forward that multiplies seq_batch in place (seq_batch.mul_) and returns it.
RNNDropoutForwardInPlace(self, h, seq_batch, keep) ==
    LET x == h[seq_batch]
        ones == new_ones(Shape3(x)[1], Shape3(x)[3])
        dropout_mask == functional_dropout(ones, self.p, self.training, keep)
        h1 == Append(Append(h, ones), dropout_mask)
    IN  [heap |-> [h1 EXCEPT ![seq_batch] = MulUnsqueeze1(dropout_mask, x)],
         dropout_mask |-> Len(h) + 2,
         result |-> seq_batch]

\* RNNDropout.forward(self, seq_batch) on heap h: the heap after the call and
\* the ids of the mask and of the returned tensor.  Every torch call here
\* allocates its result (inplace=False; * is out of place).
RNNDropoutForward(self, h, seq_batch, keep) ==
    LET x == h[seq_batch]
        ones == new_ones(Shape3(x)[1], Shape3(x)[3])
        dropout_mask == functional_dropout(ones, self.p, self.training, keep)
        h1 == Append(Append(h, ones), dropout_mask)
    IN  [heap |-> Append(h1, MulUnsqueeze1(dropout_mask, x)),
         dropout_mask |-> Len(h) + 2,
         result |-> Len(h) + 3]

NoCall == [called |-> FALSE]

\* nn.Module.train(mode) / eval(): sets self.training.
DropoutTrain(mode) ==
    /\ ~dcall.called
    /\ dropout.training # mode
    /\ dropout' = [dropout EXCEPT !.training = mode]
    /\ UNCHANGED <<heap, dcall, encoder, ecall, acall>>

\* A call of RNNDropout.forward on a fresh input tensor.
DropoutForward ==
    /\ ~dcall.called
    /\ \E B \in 1..MaxBatch, T \in 1..MaxTime, F \in 1..MaxDim, seed \in Seeds :
       \E keep \in [1..B -> [1..F -> {0, 1}]] :
          LET h0 == <<Tensor3(B, T, F, seed)>>
              r == RNNDropoutForward(dropout, h0, 1, keep)
          IN  /\ heap' = r.heap
              /\ dcall' = [called |-> TRUE,
                           seq_batch |-> 1,
                           before |-> h0[1],
                           dropout_mask |-> r.dropout_mask,
                           result |-> r.result]
    /\ UNCHANGED <<dropout, encoder, ecall, acall>>

\* The caller drops the tensors of the call.
DropoutReturn ==
    /\ dcall.called
    /\ dcall' = NoCall
    /\ heap' = <<>>
    /\ UNCHANGED <<dropout, encoder, ecall, acall>>

InitDropout ==
    /\ dropout \in [p : PValues, training : {TRUE}]
    /\ heap = <<>>
    /\ dcall = NoCall
    /\ encoder = [state |-> "unused"]
    /\ ecall = [pc |-> "unused"]
    /\ acall = NoCall

NextDropout ==
    \/ \E mode \in BOOLEAN : DropoutTrain(mode)
    \/ DropoutForward
    \/ DropoutReturn

SpecDropout == InitDropout /\ [][NextDropout]_vars

----------------------------------------------------------------------------
(* Claims about RNNDropout.                                                *)

DIn == dcall.before
DOut == heap[dcall.result]
DMask == heap[dcall.dropout_mask]

\* The values an element of the dropout mask can take.
MaskVals ==
    IF ~dropout.training \/ PIsZero(dropout.p) THEN {1}
    ELSE IF PIsOne(dropout.p) THEN {0}
    ELSE {0, Scale(dropout.p)}

\* C1: RNNDropout.forward applies one mask per sequence across all
\* timesteps: there is a mask m of shape (batch, dim) with
\* output[b][t][f] = m[b][f] * input[b][t][f]; so within a sequence a feature
\* is dropped at every timestep or kept, with one scale, at every timestep.
C1_OneMaskPerSequence ==
    dcall.called =>
        /\ Shape2(DMask) = <<Shape3(DIn)[1], Shape3(DIn)[3]>>
        /\ \A b \in DOMAIN DIn : \A f \in 1..Shape3(DIn)[3] :
              /\ DMask[b][f] \in MaskVals
              /\ \E c \in MaskVals : \A t \in DOMAIN DIn[b] :
                    DOut[b][t][f] = c * DIn[b][t][f]
              /\ \A t \in DOMAIN DIn[b] : DOut[b][t][f] = DMask[b][f] * DIn[b][t][f]

\* C1 witness: training with 0 < p < 1, two timesteps with a non-zero
\* feature that is dropped in sequence 1 and kept in sequence 2.
C1_Witness ==
    /\ dcall.called
    /\ dropout.training /\ ~PIsZero(dropout.p) /\ ~PIsOne(dropout.p)
    /\ Shape3(DIn)[1] >= 2 /\ Shape3(DIn)[2] >= 2
    /\ \E f \in 1..Shape3(DIn)[3] :
          /\ \A t \in 1..2 : DIn[1][t][f] # 0 /\ DOut[1][t][f] = 0
          /\ \A t \in 1..2 : DIn[2][t][f] # 0
                /\ DOut[2][t][f] = Scale(dropout.p) * DIn[2][t][f]

\* C8: outside training mode, or with p = 0, forward is the identity on
\* values and the mask is all ones; in every mode the result is a new tensor
\* of the input's shape and the input tensor is unmodified.
C8_EvalIdentityNewTensor ==
    dcall.called =>
        /\ (~dropout.training \/ PIsZero(dropout.p)) =>
              /\ DOut = DIn
              /\ \A b \in DOMAIN DMask : \A f \in DOMAIN DMask[b] : DMask[b][f] = 1
        /\ dcall.result # dcall.seq_batch
        /\ Shape3(DOut) = Shape3(DIn)
        /\ heap[dcall.seq_batch] = DIn

\* C8 witness: a call in evaluation mode with p > 0 on an input that has a
\* non-zero element.
C8_Witness ==
    /\ dcall.called
    /\ ~dropout.training /\ ~PIsZero(dropout.p)
    /\ \E b \in DOMAIN DIn : \E t \in DOMAIN DIn[b] : \E f \in DOMAIN DIn[b][t] :
          DIn[b][t][f] # 0 /\ DOut[b][t][f] = DIn[b][t][f]

----------------------------------------------------------------------------
(* Seq2seqEncoder.__init__.                                                *)

\* Python values passed as rnn_type: classes inheriting from nn.RNNBase,
\* other classes, and values that are not classes.
RNNClasses == {"LSTM", "GRU", "RNN"}
OtherClasses == {"Linear", "Module"}
NonClasses == {"'lstm'", "LSTM()"}
RnnTypes == RNNClasses \cup OtherClasses \cup NonClasses

NoAttrs == [x \in {} |-> 0]

\* The arguments of the inner encoder: rnn_type(input_size, hidden_size,
\* num_layers=, bias=, batch_first=True, dropout=, bidirectional=).
EncoderOf(a) ==
    [cls |-> a.rnn_type, input_size |-> a.input_size,
     hidden_size |-> a.hidden_size, num_layers |-> a.num_layers,
     bias |-> a.bias, batch_first |-> TRUE, dropout |-> a.dropout,
     bidirectional |-> a.bidirectional]

\* An __init__ that asserts after super().__init__() and the assignments.
Seq2seqEncoderInitLateAssert(a) ==
    IF a.rnn_type \in NonClasses
    THEN [exc |-> "TypeError", message |-> "issubclass() arg 1 must be a class",
          module_init |-> TRUE, attrs |-> a]
    ELSE IF a.rnn_type \notin RNNClasses
    THEN [exc |-> "AssertionError",
          message |-> "rnn_type must be a class inheriting from torch.nn.RNNBase",
          module_init |-> TRUE, attrs |-> a]
    ELSE [exc |-> "none", message |-> "", module_init |-> TRUE,
          attrs |-> a @@ [_encoder |-> EncoderOf(a)]]

\* Seq2seqEncoder.__init__ with the arguments a: the object after the
\* constructor ran, or the exception it raised.  issubclass raises TypeError
\* when its first argument is not a class; the assert raises AssertionError
\* when it returns False.
Seq2seqEncoderInit(a) ==
    IF a.rnn_type \in NonClasses
    THEN [exc |-> "TypeError", message |-> "issubclass() arg 1 must be a class",
          module_init |-> FALSE, attrs |-> NoAttrs]
    ELSE IF a.rnn_type \notin RNNClasses
    THEN [exc |-> "AssertionError",
          message |-> "rnn_type must be a class inheriting from torch.nn.RNNBase",
          module_init |-> FALSE, attrs |-> NoAttrs]
    ELSE [exc |-> "none", message |-> "", module_init |-> TRUE,
          attrs |-> [rnn_type |-> a.rnn_type,
                     input_size |-> a.input_size,
                     hidden_size |-> a.hidden_size,
                     num_layers |-> a.num_layers,
                     bias |-> a.bias,
                     dropout |-> a.dropout,
                     bidirectional |-> a.bidirectional,
                     device |-> a.device,
                     _encoder |-> EncoderOf(a)]]

NotConstructed == [exc |-> "none", message |-> "", module_init |-> FALSE,
                   attrs |-> NoAttrs, args |-> <<>>]

\* Seq2seqEncoder(rnn_type, input_size, hidden_size, ...): the call with its
\* arguments, kept beside the outcome.
Construct ==
    /\ encoder = NotConstructed
    /\ \E a \in [rnn_type : RnnTypes, input_size : 1..MaxDim,
                 hidden_size : 1..MaxDim, num_layers : 1..MaxLayers,
                 bias : BOOLEAN, dropout : PValues, bidirectional : BOOLEAN,
                 device : {"cpu", "cuda"}] :
          encoder' = [args |-> a] @@ Seq2seqEncoderInit(a)
    /\ UNCHANGED <<dropout, heap, dcall, ecall, acall>>

\* The reference to the object is dropped (after an exception or a use).
Discard ==
    /\ encoder # NotConstructed
    /\ encoder' = NotConstructed
    /\ UNCHANGED <<dropout, heap, dcall, ecall, acall>>

InitConstruct ==
    /\ dropout = [state |-> "unused"]
    /\ heap = <<>>
    /\ dcall = NoCall
    /\ encoder = NotConstructed
    /\ ecall = [pc |-> "unused"]
    /\ acall = NoCall

NextConstruct ==
    \/ Construct
    \/ Discard

SpecConstruct == InitConstruct /\ [][NextConstruct]_vars

Constructed == encoder # NotConstructed

\* C7 as stated: every rnn_type that is not a class inheriting from
\* nn.RNNBase makes the constructor fail with the AssertionError
\* "rnn_type must be a class inheriting from torch.nn.RNNBase".
C7_AnyInvalidTypeAsserts ==
    (Constructed /\ encoder.args.rnn_type \notin RNNClasses) =>
        /\ encoder.exc = "AssertionError"
        /\ encoder.message = "rnn_type must be a class inheriting from torch.nn.RNNBase"

\* C7 amended: a class that does not inherit from nn.RNNBase fails with that
\* AssertionError, a value that is not a class fails with the TypeError of
\* issubclass; either way before nn.Module.__init__ ran, any attribute was set
\* or any encoder was created.  With a class inheriting from nn.RNNBase the
\* inner encoder is created with batch_first=True and the given input_size,
\* hidden_size, num_layers, bias, dropout and bidirectional.
C7_InvalidTypeFailsBeforeAttributes ==
    Constructed =>
        LET a == encoder.args IN
        /\ a.rnn_type \in OtherClasses =>
              /\ encoder.exc = "AssertionError"
              /\ encoder.message =
                    "rnn_type must be a class inheriting from torch.nn.RNNBase"
        /\ a.rnn_type \in NonClasses => encoder.exc = "TypeError"
        /\ a.rnn_type \notin RNNClasses =>
              /\ encoder.exc # "none"
              /\ ~encoder.module_init
              /\ DOMAIN encoder.attrs = {}
        /\ a.rnn_type \in RNNClasses =>
              /\ encoder.exc = "none"
              /\ "_encoder" \in DOMAIN encoder.attrs
              /\ encoder.attrs._encoder.cls = a.rnn_type
              /\ encoder.attrs._encoder.batch_first
              /\ \A k \in {"input_size", "hidden_size", "num_layers", "bias",
                            "dropout", "bidirectional"} :
                    encoder.attrs._encoder[k] = a[k]

\* C7 witness: a constructor call with a class that is not an RNN, which
\* raised the AssertionError and left no attribute.
C7_Witness ==
    /\ Constructed
    /\ encoder.args.rnn_type = "Linear"
    /\ encoder.exc = "AssertionError"
    /\ DOMAIN encoder.attrs = {}

----------------------------------------------------------------------------
(* Torch primitives used by Seq2seqEncoder.forward.  Indices are 1-based.  *)

RECURSIVE SumF(_, _)
SumF(f, n) == IF n = 0 THEN 0 ELSE f[n] + SumF(f, n - 1)

ZeroVec(n) == Tup([j \in 1..n |-> 0])

Reverse(xs) == Tup([i \in 1..Len(xs) |-> xs[Len(xs) + 1 - i]])

\* tensor.index_select(0, index)
index_select(x, index) == Tup([i \in DOMAIN index |-> x[index[i]]])

NonIncreasing(lens) == \A i \in 1..(Len(lens) - 1) : lens[i] >= lens[i + 1]

\* PackedSequence layout: the timesteps one after the other, timestep t
\* holding the vectors of the first batch_sizes[t] sequences.
BatchSizes(lens) ==
    Tup([t \in 1..lens[1] |-> Cardinality({k \in DOMAIN lens : lens[k] >= t})])

Offset(bs, t) == SumF(bs, t - 1)

RowLen(bs, k) == Cardinality({t \in DOMAIN bs : bs[t] >= k})

RECURSIVE PackRows(_, _, _)
PackRows(rows, bs, t) ==
    IF t > Len(bs) THEN <<>>
    ELSE Tup([k \in 1..bs[t] |-> rows[k][t]]) \o PackRows(rows, bs, t + 1)

Row(packed, k) ==
    Tup([t \in 1..RowLen(packed.batch_sizes, k) |->
            packed.data[Offset(packed.batch_sizes, t) + k]])

\* nn.utils.rnn.pack_padded_sequence(input, lengths, batch_first=True), with
\* enforce_sorted at its default True: it raises unless the lengths are
\* positive, sorted in decreasing order and within the padded length.
pack_padded_sequence(input, lengths) ==
    IF \/ Len(lengths) # Len(input)
       \/ \E k \in DOMAIN lengths : lengths[k] < 1 \/ lengths[k] > Len(input[k])
       \/ ~NonIncreasing(lengths)
    THEN [ok |-> FALSE, exc |-> "RuntimeError"]
    ELSE [ok |-> TRUE,
          data |-> PackRows(input, BatchSizes(lengths), 1),
          batch_sizes |-> BatchSizes(lengths)]

\* nn.utils.rnn.pad_packed_sequence(sequence, batch_first=True): total_length
\* is None, so the time dimension is the longest sequence's length, and
\* padding_value is 0.
pad_packed_sequence(packed) ==
    Tup([k \in 1..packed.batch_sizes[1] |->
        Tup([t \in 1..Len(packed.batch_sizes) |->
            IF t <= RowLen(packed.batch_sizes, k)
            THEN packed.data[Offset(packed.batch_sizes, t) + k]
            ELSE ZeroVec(Len(packed.data[1]))])])

\* One step of a recurrent cell of class cls in layer l, direction d: the
\* new hidden (and, for an LSTM, cell) vector from the old ones and input x.
Mix(x, k) == SumF([j \in 1..Len(x) |-> (j + k) * x[j]], Len(x))

CellStep(cls, l, d, st, x) ==
    IF cls = "LSTM"
    THEN LET c1 == Tup([k \in DOMAIN st.c |->
                           (st.c[k] + Mix(x, k) + st.h[k] + 1) % Modulus])
         IN  [h |-> Tup([k \in DOMAIN st.h |-> (2 * c1[k] + l + d) % Modulus]),
              c |-> c1]
    ELSE [h |-> Tup([k \in DOMAIN st.h |->
                        (Mix(x, k) + 2 * st.h[k] + l + d) % Modulus])]

RECURSIVE RunCell(_, _, _, _, _, _)
RunCell(cls, l, d, xs, i, st) ==
    IF i > Len(xs) THEN <<>>
    ELSE LET n == CellStep(cls, l, d, st, xs[i])
         IN  <<n.h>> \o RunCell(cls, l, d, xs, i + 1, n)

\* The initial state of sequence k in layer l, direction d.
StateOf(enc, hx, l, d, k) ==
    LET idx == (l - 1) * (IF enc.bidirectional THEN 2 ELSE 1) + d
    IN  IF enc.cls = "LSTM"
        THEN [h |-> hx[1][idx][k], c |-> hx[2][idx][k]]
        ELSE [h |-> hx[idx][k]]

\* One sequence through layer l: the forward direction, and for a
\* bidirectional encoder the backward direction, run from the last vector,
\* concatenated at every timestep.
LayerRow(enc, hx, l, k, xs) ==
    LET fwd == RunCell(enc.cls, l, 1, xs, 1, StateOf(enc, hx, l, 1, k))
    IN  IF enc.bidirectional
        THEN LET bwd == Reverse(RunCell(enc.cls, l, 2, Reverse(xs), 1,
                                        StateOf(enc, hx, l, 2, k)))
             IN  Tup([t \in 1..Len(xs) |-> fwd[t] \o bwd[t]])
        ELSE fwd

RECURSIVE StackRow(_, _, _, _, _)
StackRow(enc, hx, l, k, xs) ==
    IF l > enc.num_layers THEN xs
    ELSE StackRow(enc, hx, l + 1, k, LayerRow(enc, hx, l, k, xs))

\* rnn(packed, hx) for an nn.RNNBase built with the arguments enc: every
\* sequence of the packed batch goes through the layers over its own
\* length; the outputs come back packed the same way.
rnn_forward(enc, packed, hx) ==
    LET bs == packed.batch_sizes
        rows == Tup([k \in 1..bs[1] |-> StackRow(enc, hx, 1, k, Row(packed, k))])
    IN  [ok |-> TRUE, data |-> PackRows(rows, bs, 1), batch_sizes |-> bs]

----------------------------------------------------------------------------
(* utils.sort_by_seq_len.                                                  *)

\* The permutations of 1..n, for every batch size of the model.
PermsTable ==
    Tup([n \in 1..MaxSeqs |->
        {Tup(p) : p \in {q \in [1..n -> 1..n] :
                            \A i, j \in 1..n : q[i] = q[j] => i = j}}])

Perms(n) == PermsTable[n]

Inverse(p) == Tup([i \in DOMAIN p |-> CHOOSE k \in DOMAIN p : p[k] = i])

\* sort_by_seq_len(batch, lens): the batch and the lengths sorted by
\* decreasing length, the sorting index and the index that restores the
\* original order.  Sequences of equal length may come in any order.
sort_by_seq_len(batch, lens) ==
    {[sorted_batch |-> index_select(batch, p),
      sorted_lens |-> index_select(lens, p),
      sorting_idx |-> p,
      restoration_idx |-> Inverse(p)] :
        p \in {q \in Perms(Len(lens)) : NonIncreasing(index_select(lens, q))}}

----------------------------------------------------------------------------
(* Seq2seqEncoder._init_hidden and Seq2seqEncoder.forward.                 *)

\* self._init_hidden(batch_size): zeros of shape (num_layers *
\* num_directions, batch_size, hidden_size); a pair of them for an LSTM.
init_hidden(self, batch_size) ==
    LET num_directions == IF self.bidirectional THEN 2 ELSE 1
        zeros == Tup([l \in 1..(self.num_layers * num_directions) |->
                         Tup([b \in 1..batch_size |-> ZeroVec(self.hidden_size)])])
    IN  IF self.rnn_type = "LSTM" THEN <<zeros, zeros>> ELSE zeros

\* A forward that leaves the batch in its input order.
ForwardNoSort(seq_batch, seq_lens) ==
    {[sorted_batch |-> seq_batch, sorted_lens |-> seq_lens,
      sorting_idx |-> [i \in DOMAIN seq_lens |-> i],
      restoration_idx |-> [i \in DOMAIN seq_lens |-> i]]}

\* sorted_batch, sorted_lens, _, restoration_idx =
\*     sort_by_seq_len(seq_batch, seq_lens): the possible outcomes.
ForwardSort(seq_batch, seq_lens) == sort_by_seq_len(seq_batch, seq_lens)

\* A forward that hands the padded batch to the encoder at full length.
ForwardPackFullLength(sorted_batch, sorted_lens) ==
    pack_padded_sequence(sorted_batch,
                         [k \in DOMAIN sorted_lens |-> Len(sorted_batch[k])])

\* packed_batch = pack_padded_sequence(sorted_batch, sorted_lens,
\*                                     batch_first=True)
ForwardPack(sorted_batch, sorted_lens) ==
    pack_padded_sequence(sorted_batch, sorted_lens)

\* outputs, _ = self._encoder(packed_batch, self._init_hidden(batch_size))
ForwardEncode(self, packed_batch, batch_size) ==
    rnn_forward(self._encoder, packed_batch, init_hidden(self, batch_size))

\* outputs, _ = pad_packed_sequence(outputs, batch_first=True)
ForwardPad(outputs) == pad_packed_sequence(outputs)

\* A forward that reorders with the sorting index.
ForwardRestoreBySortingIdx(outputs, sorted) ==
    index_select(outputs, sorted.sorting_idx)

\* reordered_outputs = outputs.index_select(0, restoration_idx)
ForwardRestore(outputs, sorted) ==
    index_select(outputs, sorted.restoration_idx)

\* Seq2seqEncoder.forward as a function of its arguments and of the outcome
\* of the sort: the returned tensor, or "raised".
Forward(self, seq_batch, seq_lens, sorted) ==
    LET batch_size == Len(seq_batch)
        packed_batch == ForwardPack(sorted.sorted_batch, sorted.sorted_lens)
    IN  IF ~packed_batch.ok THEN "raised"
        ELSE ForwardRestore(
                 ForwardPad(ForwardEncode(self, packed_batch, batch_size)),
                 sorted)

Idle == [pc |-> "idle"]

\* forward(seq_batch, seq_lens) is called; batch_size is read and the batch
\* is sorted (lines 137-140).
EncCall ==
    /\ ecall.pc = "idle"
    /\ \E B \in 1..MaxSeqs, T \in 1..MaxTime, seed \in Seeds :
       \E seq_lens \in [1..B -> 1..T] :
          LET seq_batch == Tensor3(B, T, encoder.attrs.input_size, seed)
          IN  \E sorted \in ForwardSort(seq_batch, seq_lens) :
                 ecall' = [pc |-> "pack", seq_batch |-> seq_batch,
                           seq_lens |-> seq_lens, batch_size |-> Len(seq_batch),
                           sorted |-> sorted]
    /\ UNCHANGED <<dropout, heap, dcall, encoder, acall>>

\* lines 141-143
EncPack ==
    /\ ecall.pc = "pack"
    /\ LET packed_batch == ForwardPack(ecall.sorted.sorted_batch,
                                       ecall.sorted.sorted_lens)
       IN  ecall' = IF packed_batch.ok
                    THEN [pc |-> "encode", packed_batch |-> packed_batch] @@ ecall
                    ELSE [pc |-> "raised", exc |-> packed_batch.exc] @@ ecall
    /\ UNCHANGED <<dropout, heap, dcall, encoder, acall>>

\* line 145
EncEncode ==
    /\ ecall.pc = "encode"
    /\ ecall' = [pc |-> "pad",
                 hidden |-> init_hidden(encoder.attrs, ecall.batch_size),
                 packed_outputs |-> ForwardEncode(encoder.attrs,
                                                  ecall.packed_batch,
                                                  ecall.batch_size)] @@ ecall
    /\ UNCHANGED <<dropout, heap, dcall, encoder, acall>>

\* lines 147-148
EncPad ==
    /\ ecall.pc = "pad"
    /\ ecall' = [pc |-> "restore",
                 outputs |-> ForwardPad(ecall.packed_outputs)] @@ ecall
    /\ UNCHANGED <<dropout, heap, dcall, encoder, acall>>

\* line 149
EncRestore ==
    /\ ecall.pc = "restore"
    /\ ecall' = [pc |-> "done",
                 reordered_outputs |->
                     ForwardRestore(ecall.outputs, ecall.sorted)] @@ ecall
    /\ UNCHANGED <<dropout, heap, dcall, encoder, acall>>

\* line 151, or the exception leaving forward
EncReturn ==
    /\ ecall.pc \in {"done", "raised"}
    /\ ecall' = Idle
    /\ UNCHANGED <<dropout, heap, dcall, encoder, acall>>

\* The encoders forward is called on: built with a class inheriting from
\* nn.RNNBase, one or two layers, hidden vectors of two components, one or
\* two directions and dropout 0 (the default), so that the encoder is a
\* function of its input.
ForwardConfigs ==
    [rnn_type : {"LSTM", "GRU"}, input_size : {MaxDim}, hidden_size : {2},
     num_layers : {1, 2}, bias : {TRUE}, dropout : {<<0, 1>>},
     bidirectional : BOOLEAN, device : {"cpu"}]

InitEncoder ==
    /\ dropout = [state |-> "unused"]
    /\ heap = <<>>
    /\ dcall = NoCall
    /\ encoder \in {[args |-> a] @@ Seq2seqEncoderInit(a) : a \in ForwardConfigs}
    /\ ecall = Idle
    /\ acall = NoCall

NextEncoder ==
    \/ EncCall
    \/ EncPack
    \/ EncEncode
    \/ EncPad
    \/ EncRestore
    \/ EncReturn

SpecEncoder == InitEncoder /\ [][NextEncoder]_vars

----------------------------------------------------------------------------
(* Claims about Seq2seqEncoder.forward.                                    *)

\* The encoding of one sequence xs on its own: a batch of one, at its full
\* length, from the zero initial state.
EncodeAlone(self, xs) ==
    StackRow(self._encoder, init_hidden(self, 1), 1, 1, xs)

Prefix(xs, n) == Tup([t \in 1..n |-> xs[t]])

MaxOf(lens) == CHOOSE m \in {lens[k] : k \in DOMAIN lens} :
                   \A k \in DOMAIN lens : lens[k] <= m

\* C2: the outputs come back in the order of the input batch, ties in length
\* included: row i of the returned tensor is the encoding of input sequence
\* i, and the restoration index applied after unpacking is the inverse of
\* the permutation that sorted the batch.
C2_OrderRestored ==
    ecall.pc = "done" =>
        /\ Len(ecall.reordered_outputs) = Len(ecall.seq_batch)
        /\ \A i \in DOMAIN ecall.seq_batch :
              /\ Prefix(ecall.reordered_outputs[i], ecall.seq_lens[i]) =
                    EncodeAlone(encoder.attrs,
                                Prefix(ecall.seq_batch[i], ecall.seq_lens[i]))
              /\ ecall.reordered_outputs[i] =
                    ecall.outputs[ecall.sorted.restoration_idx[i]]
              /\ ecall.sorted.sorting_idx[ecall.sorted.restoration_idx[i]] = i
              /\ ecall.sorted.restoration_idx[ecall.sorted.sorting_idx[i]] = i

\* C2 witness: a finished call on three sequences or more, two of them of
\* equal length, sorted by a permutation that is not its own inverse, whose
\* encodings differ.
C2_Witness ==
    /\ ecall.pc = "done"
    /\ Len(ecall.seq_batch) >= 3
    /\ ecall.sorted.sorting_idx # ecall.sorted.restoration_idx
    /\ \E i, j \in DOMAIN ecall.seq_lens :
          i # j /\ ecall.seq_lens[i] = ecall.seq_lens[j]
    /\ \E i, j \in DOMAIN ecall.reordered_outputs :
          ecall.reordered_outputs[i] # ecall.reordered_outputs[j]

\* C3 as stated: for every batch of shape (batch, T, input_size) and lengths
\* between 1 and T, the returned tensor has batch rows and time dimension T.
C3_TimeDimensionKept ==
    ecall.pc = "done" =>
        /\ Len(ecall.reordered_outputs) = Len(ecall.seq_batch)
        /\ \A i \in DOMAIN ecall.reordered_outputs :
              Len(ecall.reordered_outputs[i]) = Len(ecall.seq_batch[i])

StepOrder ==
    {<<"idle", "pack">>, <<"pack", "encode">>, <<"encode", "pad">>,
     <<"pad", "restore">>, <<"restore", "done">>, <<"done", "idle">>}

InStepOrder == (<<ecall.pc, ecall.pc'>> \in StepOrder)

SortedAtPack ==
    ecall.pc = "pack" =>
        /\ NonIncreasing(ecall.sorted.sorted_lens)
        /\ Len(ecall.sorted.sorted_batch) = Len(ecall.seq_batch)
        /\ \A k \in DOMAIN ecall.sorted.sorted_lens :
              /\ ecall.sorted.sorted_lens[k] =
                    ecall.seq_lens[ecall.sorted.sorting_idx[k]]
              /\ ecall.sorted.sorted_batch[k] =
                    ecall.seq_batch[ecall.sorted.sorting_idx[k]]
        /\ \A i \in DOMAIN ecall.seq_lens :
              \E k \in DOMAIN ecall.sorted.sorting_idx :
                  ecall.sorted.sorting_idx[k] = i

\* C4: forward goes through sort, pack, run, pad, restore in this order and
\* no other, and the batch handed to pack_padded_sequence is sorted by
\* non-increasing length, sorted_lens[k] being the length of sorted_batch[k],
\* whatever the order of the input batch.
C4_SortedBeforePacking ==
    /\ []SortedAtPack
    /\ [][InStepOrder]_ecall

\* C4 witness: a batch that came in increasing order of length is about to
\* be packed.
C4_Witness ==
    /\ ecall.pc = "pack"
    /\ Len(ecall.seq_lens) >= 2
    /\ ecall.seq_lens[1] < ecall.seq_lens[2]
    /\ ecall.sorted.sorted_lens[1] > ecall.sorted.sorted_lens[Len(ecall.seq_lens)]

\* The batch with every padded position overwritten by the vector of v's.
Refill(batch, lens, v) ==
    Tup([i \in DOMAIN batch |-> Tup([t \in DOMAIN batch[i] |->
        IF t <= lens[i] THEN batch[i][t]
        ELSE Tup([f \in DOMAIN batch[i][t] |-> v])])])

\* The batch, or the lengths, with the rows moved one place up.
Rotate(x) == Tup([i \in DOMAIN x |-> x[(i % Len(x)) + 1]])

AllZero(hx) ==
    \A l \in DOMAIN hx : \A b \in DOMAIN hx[l] : \A k \in DOMAIN hx[l][b] :
        hx[l][b][k] = 0

\* C9: in the output the positions from seq_lens[i] on hold zero vectors, up
\* to the output's time dimension; the encoding before seq_lens[i] depends
\* neither on the values in the padded positions of the input nor on the
\* place of the sequence in the batch; every call starts from an all-zero
\* initial state.
C9_PaddingIgnored ==
    ecall.pc = "done" =>
        LET out == ecall.reordered_outputs
            self == encoder.attrs
            B == Len(ecall.seq_batch)
        IN
        /\ \A i \in DOMAIN out : \A t \in DOMAIN out[i] :
              t > ecall.seq_lens[i] =>
                  \A k \in DOMAIN out[i][t] : out[i][t][k] = 0
        /\ \A i \in DOMAIN out : Len(out[i]) = MaxOf(ecall.seq_lens)
        /\ LET alt == Rotate(Refill(ecall.seq_batch, ecall.seq_lens,
                                    Cardinality(Vals)))
               rl == Rotate(ecall.seq_lens)
               s == CHOOSE r \in ForwardSort(alt, rl) : TRUE
           IN  Forward(self, alt, rl, s) = Rotate(out)
        /\ IF self.rnn_type = "LSTM"
           THEN AllZero(ecall.hidden[1]) /\ AllZero(ecall.hidden[2])
           ELSE AllZero(ecall.hidden)

\* C9 witness: a finished call of a bidirectional encoder on two sequences
\* or more, one shorter than the output's time dimension, whose padded
\* input positions hold non-zero values and whose encoding is not zero.
C9_Witness ==
    /\ ecall.pc = "done"
    /\ encoder.attrs.bidirectional
    /\ Len(ecall.seq_batch) >= 2
    /\ \E i \in DOMAIN ecall.seq_batch :
          /\ ecall.seq_lens[i] < Len(ecall.reordered_outputs[i])
          /\ \E f \in DOMAIN ecall.seq_batch[i][ecall.seq_lens[i] + 1] :
                ecall.seq_batch[i][ecall.seq_lens[i] + 1][f] # 0
          /\ \E k \in DOMAIN ecall.reordered_outputs[i][1] :
                ecall.reordered_outputs[i][1][k] # 0

----------------------------------------------------------------------------
(* Rational numbers <<n, d>>, d > 0, in lowest terms: the values of the    *)
(* attention weights and of the attention vectors.                         *)

RECURSIVE Gcd(_, _)
Gcd(a, b) == IF b = 0 THEN a ELSE Gcd(b, a % b)

Abs(a) == IF a < 0 THEN -a ELSE a

Q(n, d) == LET g == Gcd(Abs(n), d) IN <<n \div g, d \div g>>
QInt(n) == <<n, 1>>
QAdd(x, y) == Q(x[1] * y[2] + y[1] * x[2], x[2] * y[2])
QMul(x, y) == Q(x[1] * y[1], x[2] * y[2])
\* x / (y + 1e-13), y >= 0: x / y, and 0 / 1e-13 = 0 when y is 0.
QDivEps(x, y) == IF y[1] = 0 THEN QInt(0) ELSE Q(x[1] * y[2], x[2] * y[1])

RECURSIVE QSum(_, _)
QSum(f, n) == IF n = 0 THEN QInt(0) ELSE QAdd(f[n], QSum(f, n - 1))

\* exp, with base 2 in place of e: positive, increasing, Exp(a + b) =
\* Exp(a) * Exp(b).
Exp(x) == Pow(2, x)

----------------------------------------------------------------------------
(* utils.masked_softmax and utils.weighted_sum.                            *)

\* masked_softmax(tensor, mask): the softmax of tensor * mask along the last
\* dimension, multiplied by the mask and normalised again, the mask
\* (batch, len) being broadcast over the rows of tensor (batch, rows, len).
masked_softmax(tensor, mask) ==
    Tup([b \in DOMAIN tensor |-> Tup([i \in DOMAIN tensor[b] |->
        LET row == tensor[b][i]
            n == Len(row)
            e == Tup([j \in 1..n |-> Exp(row[j] * mask[b][j])])
            total == SumF(e, n)
            r == Tup([j \in 1..n |-> QMul(Q(e[j], total), QInt(mask[b][j]))])
            rsum == QSum(r, n)
        IN  Tup([j \in 1..n |-> QDivEps(r[j], rsum)])])])

\* weighted_sum(tensor, weights, mask): weights.bmm(tensor), the rows at the
\* positions the mask (batch, rows) pads set to zero.
weighted_sum(tensor, weights, mask) ==
    Tup([b \in DOMAIN weights |-> Tup([i \in DOMAIN weights[b] |->
        Tup([d \in DOMAIN tensor[b][1] |->
            QMul(QSum([j \in DOMAIN tensor[b] |->
                          QMul(weights[b][i][j], QInt(tensor[b][j][d]))],
                      Len(tensor[b])),
                 QInt(mask[b][i]))])])])

----------------------------------------------------------------------------
(* SoftmaxAttention.forward.                                               *)

\* x.transpose(1, 2) of a tensor (batch, n, m)
transpose(x) ==
    Tup([b \in DOMAIN x |-> Tup([j \in DOMAIN x[b][1] |->
        Tup([i \in DOMAIN x[b] |-> x[b][i][j]])])])

\* x.bmm(y) for x (batch, n, k) and y (batch, k, m)
bmm(x, y) ==
    Tup([b \in DOMAIN x |-> Tup([i \in DOMAIN x[b] |->
        Tup([j \in DOMAIN y[b][1] |->
            SumF([k \in DOMAIN y[b] |-> x[b][i][k] * y[b][k][j]],
                 Len(y[b]))])])])

\* A forward that takes the hypothesis weights from the similarity matrix
\* without transposing it (it runs when the two lengths are equal).
SoftmaxAttentionForwardNoTranspose(premise_batch, premise_mask, hypothesis_batch, hypothesis_mask) ==
    LET similarity_matrix == bmm(premise_batch, transpose(hypothesis_batch))
        prem_hyp_attn == masked_softmax(similarity_matrix, hypothesis_mask)
        hyp_prem_attn ==
            IF Len(premise_batch[1]) = Len(hypothesis_batch[1])
            THEN masked_softmax(similarity_matrix, premise_mask)
            ELSE masked_softmax(transpose(similarity_matrix), premise_mask)
    IN  [similarity_matrix |-> similarity_matrix,
         prem_hyp_attn |-> prem_hyp_attn,
         hyp_prem_attn |-> hyp_prem_attn,
         attended_premises |->
             weighted_sum(hypothesis_batch, prem_hyp_attn, premise_mask),
         attended_hypotheses |->
             weighted_sum(premise_batch, hyp_prem_attn, hypothesis_mask)]

\* A forward that hands each masked_softmax the mask of the attending
\* sequence (it runs when the two lengths are equal).
SoftmaxAttentionForwardSwappedMasks(premise_batch, premise_mask, hypothesis_batch, hypothesis_mask) ==
    LET similarity_matrix == bmm(premise_batch, transpose(hypothesis_batch))
        same == Len(premise_batch[1]) = Len(hypothesis_batch[1])
        prem_hyp_attn ==
            masked_softmax(similarity_matrix,
                           IF same THEN premise_mask ELSE hypothesis_mask)
        hyp_prem_attn ==
            masked_softmax(transpose(similarity_matrix),
                           IF same THEN hypothesis_mask ELSE premise_mask)
    IN  [similarity_matrix |-> similarity_matrix,
         prem_hyp_attn |-> prem_hyp_attn,
         hyp_prem_attn |-> hyp_prem_attn,
         attended_premises |->
             weighted_sum(hypothesis_batch, prem_hyp_attn, premise_mask),
         attended_hypotheses |->
             weighted_sum(premise_batch, hyp_prem_attn, hypothesis_mask)]

\* SoftmaxAttention.forward: its locals and the two tensors it returns.
SoftmaxAttentionForward(premise_batch, premise_mask, hypothesis_batch, hypothesis_mask) ==
    LET similarity_matrix == bmm(premise_batch, transpose(hypothesis_batch))
        prem_hyp_attn == masked_softmax(similarity_matrix, hypothesis_mask)
        hyp_prem_attn == masked_softmax(transpose(similarity_matrix),
                                        premise_mask)
    IN  [similarity_matrix |-> similarity_matrix,
         prem_hyp_attn |-> prem_hyp_attn,
         hyp_prem_attn |-> hyp_prem_attn,
         attended_premises |->
             weighted_sum(hypothesis_batch, prem_hyp_attn, premise_mask),
         attended_hypotheses |->
             weighted_sum(premise_batch, hyp_prem_attn, hypothesis_mask)]

\* The mask of a batch of sequences of the given lengths, padded to n.
MaskOf(lens, n) ==
    Tup([b \in DOMAIN lens |-> Tup([i \in 1..n |-> IF i <= lens[b] THEN 1 ELSE 0])])

\* The lengths of a batch of B sequences padded to the longest one, n.
PaddedLens(B, n) == {l \in [1..B -> 1..n] : \E b \in 1..B : l[b] = n}

\* The caller's arguments: a batch of premises and one of hypotheses, each
\* padded to its longest sequence, with the masks of their lengths.
AttnCall ==
    /\ ~acall.called
    /\ \E B \in 1..MaxBatch, P \in 1..MaxTime, H \in 1..MaxTime :
       \E ps \in Seeds, plens \in PaddedLens(B, P), hlens \in PaddedLens(B, H) :
       \E hs \in {ps, Cardinality(Seeds) - 1 - ps} :
          acall' = [called |-> TRUE, returned |-> FALSE,
                    premise_batch |-> Tensor3(B, P, MaxDim, ps),
                    premise_mask |-> MaskOf(plens, P),
                    hypothesis_batch |-> Tensor3(B, H, MaxDim, hs),
                    hypothesis_mask |-> MaskOf(hlens, H)]
    /\ UNCHANGED <<dropout, heap, dcall, encoder, ecall>>

\* SoftmaxAttention.forward on these arguments.
AttnForward ==
    /\ acall.called /\ ~acall.returned
    /\ acall' = [returned |-> TRUE]
                @@ SoftmaxAttentionForward(acall.premise_batch,
                                           acall.premise_mask,
                                           acall.hypothesis_batch,
                                           acall.hypothesis_mask)
                @@ acall
    /\ UNCHANGED <<dropout, heap, dcall, encoder, ecall>>

\* The caller drops the tensors of the call.
AttnReturn ==
    /\ acall.called /\ acall.returned
    /\ acall' = NoCall
    /\ UNCHANGED <<dropout, heap, dcall, encoder, ecall>>

InitAttention ==
    /\ dropout = [state |-> "unused"]
    /\ heap = <<>>
    /\ dcall = NoCall
    /\ encoder = [state |-> "unused"]
    /\ ecall = [pc |-> "unused"]
    /\ acall = NoCall

NextAttention ==
    \/ AttnCall
    \/ AttnForward
    \/ AttnReturn

SpecAttention == InitAttention /\ [][NextAttention]_vars

----------------------------------------------------------------------------
(* Claims about SoftmaxAttention.forward.                                  *)

Returned == acall.called /\ acall.returned

Dot(x, y) == SumF([d \in DOMAIN x |-> x[d] * y[d]], Len(x))

\* The softmax numerator of the pair (premise i, hypothesis j) of batch
\* element b, from the arguments of the call.
SimExp(b, i, j) ==
    Exp(Dot(acall.premise_batch[b][i], acall.hypothesis_batch[b][j]))

\* The sum over the rows j that mask keeps of weight[j] * batch[j][d],
\* divided by the sum of these weights.
Average(batch, mask, weight, d) ==
    Q(SumF([j \in DOMAIN batch |-> mask[j] * weight[j] * batch[j][d]], Len(batch)),
      SumF([j \in DOMAIN batch |-> mask[j] * weight[j]], Len(batch)))

\* C5: similarity[b][i][j] is the dot product of premise vector i and
\* hypothesis vector j of batch element b, and both directions use this one
\* matrix: attended_premises[b][i] is the sum of the hypothesis vectors
\* weighted by the softmax over j of similarity[b][i][j], and
\* attended_hypotheses[b][j] the sum of the premise vectors weighted by the
\* softmax over i of similarity[b][i][j] (the softmax running over the
\* positions that are not padding); the outputs have the shapes
\* (batch, premise_len, dim) and (batch, hypothesis_len, dim).
C5_AttentionIsSoftmaxOfDotProducts ==
    Returned =>
        LET p == acall.premise_batch
            h == acall.hypothesis_batch
            pm == acall.premise_mask
            hm == acall.hypothesis_mask
        IN
        /\ Shape3(acall.similarity_matrix) = <<Len(p), Len(p[1]), Len(h[1])>>
        /\ Shape3(acall.attended_premises) = Shape3(p)
        /\ Shape3(acall.attended_hypotheses) = Shape3(h)
        /\ \A b \in DOMAIN p : \A i \in DOMAIN p[b] : \A j \in DOMAIN h[b] :
              /\ acall.similarity_matrix[b][i][j] = Dot(p[b][i], h[b][j])
              /\ hm[b][j] = 1 =>
                    acall.prem_hyp_attn[b][i][j] =
                        Q(SimExp(b, i, j),
                          SumF([k \in DOMAIN h[b] |-> hm[b][k] * SimExp(b, i, k)],
                               Len(h[b])))
              /\ pm[b][i] = 1 =>
                    acall.hyp_prem_attn[b][j][i] =
                        Q(SimExp(b, i, j),
                          SumF([k \in DOMAIN p[b] |-> pm[b][k] * SimExp(b, k, j)],
                               Len(p[b])))
        /\ \A b \in DOMAIN p : \A i \in DOMAIN p[b] : \A d \in DOMAIN p[b][i] :
              pm[b][i] = 1 =>
                  acall.attended_premises[b][i][d] =
                      Average(h[b], hm[b],
                              [j \in DOMAIN h[b] |-> SimExp(b, i, j)], d)
        /\ \A b \in DOMAIN h : \A j \in DOMAIN h[b] : \A d \in DOMAIN h[b][j] :
              hm[b][j] = 1 =>
                  acall.attended_hypotheses[b][j][d] =
                      Average(p[b], pm[b],
                              [i \in DOMAIN p[b] |-> SimExp(b, i, j)], d)

\* C5 witness: a finished call without padding, on premises and hypotheses
\* of different lengths, where a premise attends to two hypothesis vectors
\* with different weights.
C5_Witness ==
    /\ Returned
    /\ Len(acall.premise_batch[1]) # Len(acall.hypothesis_batch[1])
    /\ \A b \in DOMAIN acall.premise_mask :
          /\ \A i \in DOMAIN acall.premise_mask[b] : acall.premise_mask[b][i] = 1
          /\ \A j \in DOMAIN acall.hypothesis_mask[b] :
                acall.hypothesis_mask[b][j] = 1
    /\ \E b \in DOMAIN acall.prem_hyp_attn :
       \E i \in DOMAIN acall.prem_hyp_attn[b] :
       \E j, k \in DOMAIN acall.prem_hyp_attn[b][i] :
          acall.prem_hyp_attn[b][i][j] # acall.prem_hyp_attn[b][i][k]

\* The batch with every vector the mask pads overwritten by the vector of v's.
RefillMasked(batch, mask, v) ==
    Tup([b \in DOMAIN batch |-> Tup([i \in DOMAIN batch[b] |->
        IF mask[b][i] = 1 THEN batch[b][i]
        ELSE Tup([d \in DOMAIN batch[b][i] |-> v])])])

\* C6: the premise-to-hypothesis weights are normalised with the hypothesis
\* mask and attended_premises is masked with the premise mask, and the other
\* way round; so a padded position of the sequence attended over has weight
\* zero and its vector changes no attention vector, and the attention vector
\* at a padded position of the attending sequence is zero.
C6_PaddingIgnored ==
    Returned =>
        LET p == acall.premise_batch
            h == acall.hypothesis_batch
            pm == acall.premise_mask
            hm == acall.hypothesis_mask
            other == SoftmaxAttentionForward(
                         RefillMasked(p, pm, Cardinality(Vals)), pm,
                         RefillMasked(h, hm, Cardinality(Vals)), hm)
        IN
        /\ \A b \in DOMAIN p : \A i \in DOMAIN p[b] : \A j \in DOMAIN h[b] :
              /\ hm[b][j] = 0 => acall.prem_hyp_attn[b][i][j] = QInt(0)
              /\ pm[b][i] = 0 => acall.hyp_prem_attn[b][j][i] = QInt(0)
        /\ \A b \in DOMAIN p : \A i \in DOMAIN p[b] :
              /\ QSum(acall.prem_hyp_attn[b][i], Len(h[b])) = QInt(1)
              /\ pm[b][i] = 0 =>
                    \A d \in DOMAIN p[b][i] :
                        acall.attended_premises[b][i][d] = QInt(0)
        /\ \A b \in DOMAIN h : \A j \in DOMAIN h[b] :
              /\ QSum(acall.hyp_prem_attn[b][j], Len(p[b])) = QInt(1)
              /\ hm[b][j] = 0 =>
                    \A d \in DOMAIN h[b][j] :
                        acall.attended_hypotheses[b][j][d] = QInt(0)
        /\ other.attended_premises = acall.attended_premises
        /\ other.attended_hypotheses = acall.attended_hypotheses

\* C6 witness: a finished call where a premise and a hypothesis of one batch
\* element are both padded, the padded vectors are not zero, and an
\* attention vector of that element is not zero.
C6_Witness ==
    /\ Returned
    /\ \E b \in DOMAIN acall.premise_batch :
          /\ \E i \in DOMAIN acall.premise_batch[b] :
                /\ acall.premise_mask[b][i] = 0
                /\ \E d \in DOMAIN acall.premise_batch[b][i] :
                      acall.premise_batch[b][i][d] # 0
          /\ \E j \in DOMAIN acall.hypothesis_batch[b] :
                /\ acall.hypothesis_mask[b][j] = 0
                /\ \E d \in DOMAIN acall.hypothesis_batch[b][j] :
                      acall.hypothesis_batch[b][j][d] # 0
          /\ \E d \in DOMAIN acall.attended_premises[b][1] :
                acall.attended_premises[b][1][d] # QInt(0)

====
